---- MODULE Spec2Model ----
(***************************************************************************)
(* Label-covering state-space search of the GST repository:                *)
(*   basic(graph, P, S)      src/basic.py                                  *)
(*   pruned_dp(graph, P, S)  src/PrunedDP.py                               *)
(*                                                                         *)
(* One behaviour is: an input (graph, P, S) is fixed, basic runs on it to  *)
(* its return, then pruned_dp runs on the same input to its return.  The   *)
(* two functions have the same local variables (visited, pq, best_cost,    *)
(* best_path); the model keeps one copy of them, owned by the function     *)
(* that is running, and records what each function returned.               *)
(*                                                                         *)
(* Vertices and labels are opaque identifiers in the source; here they are *)
(* numbers.  Costs are naturals (the generator draws integer weights), and *)
(* float('inf') is the value Inf, handled by the comparison operators.     *)
(***************************************************************************)
EXTENDS Integers, FiniteSets, Sequences, TLC

\* ---------------------------------------------------------------- bounds
NumVertices == 3
NumLabels == 2
MaxWeight == 1

Vertices == 1..NumVertices
Labels == 1..NumLabels
\* the places of an edge; the inputs have no self-loops
Pairs == {{u, v} : u, v \in Vertices} \ {{v} : v \in Vertices}

VARIABLES
    nodes,        \* graph.nodes(): the vertices of the graph
    wt,           \* the undirected weighted edges: {u, v} |-> weight
    P,            \* the query
    S,            \* the label assignment, a function on the vertices it maps
    pc,           \* which function runs, and where it is
    visited,      \* Dict[(vertex, frozenset), cost]
    pq,           \* the heap, as the set of its entries
    best_cost,
    best_path,
    basic_ret,    \* what basic returned
    pruned_ret    \* what pruned_dp returned

vars == <<nodes, wt, P, S, pc, visited, pq, best_cost, best_path, basic_ret, pruned_ret>>
input == <<nodes, wt, P, S>>

\* ------------------------------------------------------------ cost values
Inf == -1

Less(a, b) == a # Inf /\ (b = Inf \/ a < b)

Plus(a, b) == IF a = Inf \/ b = Inf THEN Inf ELSE a + b

\* cost > best * 2 / 3
OverBound(cost, best) == best # Inf /\ (cost = Inf \/ 3 * cost > 2 * best)

\* ------------------------------------------------------------ the inputs
\* faulty variant: a vertex that S does not map counts as carrying every label
LabelsAtOrAll(SS, v) == (IF v \in DOMAIN SS THEN SS[v] ELSE P) \cap P

\* S.get(v, set()) & P
LabelsAt(SS, v) == (IF v \in DOMAIN SS THEN SS[v] ELSE {}) \cap P

Neighbors(v) == {u \in nodes : {u, v} \in DOMAIN wt}

\* faulty variant: every edge counts 1, its weight is not read
UnitWeight(v, u) == 1

\* graph[v][u].get("weight", 1.0); every edge of the inputs carries a weight
Weight(v, u) == wt[{v, u}]

\* ------------------------------------------------------ table and heap
NoVisited == [k \in {} |-> 0]

VisitedGet(vis, key) == IF key \in DOMAIN vis THEN vis[key] ELSE Inf

Key(e) == <<e.v, e.labels>>

Entry(c, v, ls, p) == [cost |-> c, v |-> v, labels |-> ls, path |-> p]

\* faulty variant: a cost equal to the recorded one counts as an improvement
ImprovesOrTies(new_cost, vis, key) == ~Less(VisitedGet(vis, key), new_cost)

\* new_cost < visited.get(new_state, float('inf'))
Improves(new_cost, vis, key) == Less(new_cost, VisitedGet(vis, key))

\* visited[new_state] = new_cost, for every pushed entry
Record(vis, pushes) ==
    [k \in {Key(e) : e \in pushes} |-> (CHOOSE e \in pushes : Key(e) = k).cost] @@ vis

\* faulty variant: one label of P is enough
CoversSome(labels) == P = {} \/ P \cap labels # {}

\* P.issubset(labels)
Covers(labels) == P \subseteq labels

\* faulty variant: the heap hands out its entries in no order
HeapAny(heap) == heap

\* faulty variant: the heap hands out an entry of greatest cost
HeapMax(heap) == {e \in heap : \A f \in heap : ~Less(e.cost, f.cost)}

\* heapq.heappop returns an entry of least cost.  Entries of equal cost are
\* ordered by the rest of the tuple (vertex identifier, then frozenset under
\* the subset order, which is partial, then path), so which of them is at the
\* root depends on the identifiers and on the layout of the heap: any of them.
HeapMin(heap) == {e \in heap : \A f \in heap : ~Less(f.cost, e.cost)}

\* ------------------------------------------------------------------ basic
\* faulty variant: the seed does not credit the labels of its vertex
BasicSeedsBare(SS) == {Entry(0, v, {}, <<v>>) : v \in nodes}

\* lines 111-115
BasicSeeds(SS) == {Entry(0, v, LabelsAt(SS, v), <<v>>) : v \in nodes}

\* faulty variant: the labels collected so far are dropped at each relaxation
BasicRelaxForgets(SS, vis, e) ==
    {n \in {Entry(Plus(e.cost, Weight(e.v, u)), u, LabelsAt(SS, u),
                  Append(e.path, u)) : u \in Neighbors(e.v)} :
        Improves(n.cost, vis, Key(n))}

\* faulty variant: the pushed entry keeps the path of the popped one
BasicRelaxSamePath(SS, vis, e) ==
    {n \in {Entry(Plus(e.cost, Weight(e.v, u)), u, e.labels \cup LabelsAt(SS, u),
                  e.path) : u \in Neighbors(e.v)} :
        Improves(n.cost, vis, Key(n))}

\* faulty variant: the new cost is written without comparing it with the table
BasicRelaxUnchecked(SS, vis, e) ==
    {Entry(Plus(e.cost, Weight(e.v, u)), u, e.labels \cup LabelsAt(SS, u),
           Append(e.path, u)) : u \in Neighbors(e.v)}

\* lines 129-136, the entries pushed.  The neighbours are distinct, so each
\* turn of the loop tests and writes a key of its own: testing every turn
\* against the table as it was before the loop is what the loop does.  A
\* pushed entry costs less than any entry pushed before it for its state, so
\* the heap never holds the same entry twice and is a set.
BasicRelax(SS, vis, e) ==
    {n \in {Entry(Plus(e.cost, Weight(e.v, u)), u, e.labels \cup LabelsAt(SS, u),
                  Append(e.path, u)) : u \in Neighbors(e.v)} :
        Improves(n.cost, vis, Key(n))}

BasicSeed ==
    /\ pc = "basic_seed"
    /\ visited' = Record(visited, BasicSeeds(S))
    /\ pq' = pq \cup BasicSeeds(S)
    /\ pc' = "basic_loop"
    /\ UNCHANGED <<input, best_cost, best_path, basic_ret, pruned_ret>>

\* faulty variant: a push takes the superseded entries of its state out of
\* the frontier
BasicIterEager ==
    /\ pc = "basic_loop"
    /\ pq # {}
    /\ \E e \in HeapMin(pq) :
        LET rest == pq \ {e} IN
        IF e.cost # VisitedGet(visited, Key(e))
        THEN pq' = rest /\ UNCHANGED <<visited, best_cost, best_path>>
        ELSE IF ~Less(e.cost, best_cost)
        THEN pq' = rest /\ UNCHANGED <<visited, best_cost, best_path>>
        ELSE IF Covers(e.labels)
        THEN /\ pq' = rest
             /\ IF Less(e.cost, best_cost)
                THEN best_cost' = e.cost /\ best_path' = e.path
                ELSE UNCHANGED <<best_cost, best_path>>
             /\ UNCHANGED visited
        ELSE LET pushes == BasicRelax(S, visited, e) IN
             /\ visited' = Record(visited, pushes)
             /\ pq' = {f \in rest : \A n \in pushes : Key(f) # Key(n)} \cup pushes
             /\ UNCHANGED <<best_cost, best_path>>
    /\ UNCHANGED <<input, pc, basic_ret, pruned_ret>>

\* one iteration of the while loop, lines 117-136
BasicIter ==
    /\ pc = "basic_loop"
    /\ pq # {}
    /\ \E e \in HeapMin(pq) :
        LET rest == pq \ {e} IN
        IF e.cost # VisitedGet(visited, Key(e))
        THEN pq' = rest /\ UNCHANGED <<visited, best_cost, best_path>>
        ELSE IF ~Less(e.cost, best_cost)
        THEN pq' = rest /\ UNCHANGED <<visited, best_cost, best_path>>
        ELSE IF Covers(e.labels)
        THEN /\ pq' = rest
             /\ IF Less(e.cost, best_cost)
                THEN best_cost' = e.cost /\ best_path' = e.path
                ELSE UNCHANGED <<best_cost, best_path>>
             /\ UNCHANGED visited
        ELSE LET pushes == BasicRelax(S, visited, e) IN
             /\ visited' = Record(visited, pushes)
             /\ pq' = rest \cup pushes
             /\ UNCHANGED <<best_cost, best_path>>
    /\ UNCHANGED <<input, pc, basic_ret, pruned_ret>>

\* line 138
BasicReturn ==
    /\ pc = "basic_loop"
    /\ pq = {}
    /\ basic_ret' = <<best_cost, best_path>>
    /\ pc' = "pruned_seed"
    /\ UNCHANGED <<input, visited, pq, best_cost, best_path, pruned_ret>>

\* faulty variant: every vertex is seeded with every label of the query
PrunedSeedsEverywhere(SS) ==
    UNION {{Entry(0, v, {lbl}, <<v>>) : lbl \in P} : v \in nodes}

\* -------------------------------------------------------------- pruned_dp
\* lines 78-84
PrunedSeeds(SS) ==
    {n \in UNION {{Entry(0, v, {lbl}, <<v>>) : lbl \in LabelsAt(SS, v)} : v \in nodes} :
        Improves(0, NoVisited, Key(n))}

\* faulty variant: the neighbour is put at the front of the path
PrunedRelaxPrepends(SS, vis, best, e) ==
    {n \in {Entry(Plus(e.cost, Weight(e.v, u)), u, e.labels \cup LabelsAt(SS, u),
                  <<u>> \o e.path) : u \in Neighbors(e.v)} :
        /\ Less(n.cost, best)
        /\ Improves(n.cost, vis, Key(n))}

\* faulty variant: the weight of the edge is not added
PrunedRelaxFree(SS, vis, best, e) ==
    {n \in {Entry(e.cost, u, e.labels \cup LabelsAt(SS, u),
                  Append(e.path, u)) : u \in Neighbors(e.v)} :
        /\ Less(n.cost, best)
        /\ Improves(n.cost, vis, Key(n))}

\* lines 103-112, the entries pushed
PrunedRelax(SS, vis, best, e) ==
    {n \in {Entry(Plus(e.cost, Weight(e.v, u)), u, e.labels \cup LabelsAt(SS, u),
                  Append(e.path, u)) : u \in Neighbors(e.v)} :
        /\ Less(n.cost, best)
        /\ Improves(n.cost, vis, Key(n))}

\* faulty variant: partial solutions at other vertices are combined too
PrunedMergeAnywhere(vis, best, e) ==
    LET remaining == P \ e.labels
        partners == {k \in DOMAIN vis : k[2] \subseteq remaining /\ k[2] # {}}
    IN {n \in {Entry(Plus(e.cost, vis[k]), e.v, e.labels \cup k[2], e.path) :
                    k \in partners} :
            /\ ~OverBound(n.cost, best)
            /\ Improves(n.cost, vis, Key(n))}

\* faulty variant: the combined state is written without comparing it with the table
PrunedMergeUnchecked(vis, best, e) ==
    LET remaining == P \ e.labels
        partners == {k \in DOMAIN vis :
                        k[1] = e.v /\ k[2] \subseteq remaining /\ k[2] # {}}
    IN {n \in {Entry(Plus(e.cost, vis[k]), e.v, e.labels \cup k[2], e.path) :
                    k \in partners} :
            ~OverBound(n.cost, best)}

\* faulty variant: a partial solution is combined whatever labels it shares
\* with the popped one
PrunedMergeOverlap(vis, best, e) ==
    LET partners == {k \in DOMAIN vis : k[1] = e.v /\ k[2] # {}}
    IN {n \in {Entry(Plus(e.cost, vis[k]), e.v, e.labels \cup k[2], e.path) :
                    k \in partners} :
            /\ ~OverBound(n.cost, best)
            /\ Improves(n.cost, vis, Key(n))}

\* faulty variant: no merge step
PrunedMergeNone(vis, best, e) == {}

\* lines 115-126, the entries pushed; vis is the table after the relaxations.
\* The loop reads a copy of the table taken before it and writes the table
\* itself; a key it writes holds labels of the popped entry, a key it reads
\* does not, so no write of the loop is read by a later turn of it.
PrunedMerge(vis, best, e) ==
    LET remaining == P \ e.labels
        partners == {k \in DOMAIN vis :
                        k[1] = e.v /\ k[2] \subseteq remaining /\ k[2] # {}}
    IN {n \in {Entry(Plus(e.cost, vis[k]), e.v, e.labels \cup k[2], e.path) :
                    k \in partners} :
            /\ ~OverBound(n.cost, best)
            /\ Improves(n.cost, vis, Key(n))}

\* lines 70-84
PrunedSeed ==
    /\ pc = "pruned_seed"
    /\ best_cost' = Inf
    /\ best_path' = <<>>
    /\ visited' = Record(NoVisited, PrunedSeeds(S))
    /\ pq' = PrunedSeeds(S)
    /\ pc' = "pruned_loop"
    /\ UNCHANGED <<input, basic_ret, pruned_ret>>

\* faulty variant: best_cost bounds nothing, neither a popped entry nor a push
PrunedIterUnbounded ==
    /\ pc = "pruned_loop"
    /\ pq # {}
    /\ \E e \in HeapMin(pq) :
        LET rest == pq \ {e} IN
        IF e.cost # VisitedGet(visited, Key(e))
        THEN pq' = rest /\ UNCHANGED <<visited, best_cost, best_path>>
        ELSE IF Covers(e.labels)
        THEN /\ pq' = rest
             /\ IF Less(e.cost, best_cost)
                THEN best_cost' = e.cost /\ best_path' = e.path
                ELSE UNCHANGED <<best_cost, best_path>>
             /\ UNCHANGED visited
        ELSE LET relaxed == PrunedRelax(S, visited, Inf, e)
                 vis1 == Record(visited, relaxed)
                 merged == PrunedMerge(vis1, Inf, e)
             IN /\ visited' = Record(vis1, merged)
                /\ pq' = (rest \cup relaxed) \cup merged
                /\ UNCHANGED <<best_cost, best_path>>
    /\ UNCHANGED <<input, pc, basic_ret, pruned_ret>>

\* one iteration of the while loop, lines 86-126
PrunedIter ==
    /\ pc = "pruned_loop"
    /\ pq # {}
    /\ \E e \in HeapMin(pq) :
        LET rest == pq \ {e} IN
        IF e.cost # VisitedGet(visited, Key(e))
        THEN pq' = rest /\ UNCHANGED <<visited, best_cost, best_path>>
        ELSE IF ~Less(e.cost, best_cost)
        THEN pq' = rest /\ UNCHANGED <<visited, best_cost, best_path>>
        ELSE IF Covers(e.labels)
        THEN /\ pq' = rest
             /\ IF Less(e.cost, best_cost)
                THEN best_cost' = e.cost /\ best_path' = e.path
                ELSE UNCHANGED <<best_cost, best_path>>
             /\ UNCHANGED visited
        ELSE IF OverBound(e.cost, best_cost)
        THEN pq' = rest /\ UNCHANGED <<visited, best_cost, best_path>>
        ELSE LET relaxed == PrunedRelax(S, visited, best_cost, e)
                 vis1 == Record(visited, relaxed)
                 merged == PrunedMerge(vis1, best_cost, e)
             IN /\ visited' = Record(vis1, merged)
                /\ pq' = (rest \cup relaxed) \cup merged
                /\ UNCHANGED <<best_cost, best_path>>
    /\ UNCHANGED <<input, pc, basic_ret, pruned_ret>>

\* line 128
PrunedReturn ==
    /\ pc = "pruned_loop"
    /\ pq = {}
    /\ pruned_ret' = <<best_cost, best_path>>
    /\ pc' = "done"
    /\ UNCHANGED <<input, visited, pq, best_cost, best_path, basic_ret>>

\* ------------------------------------------------- covering walks
\* The search states (vertex, collected labels) and, by induction on k, the
\* least weight of a walk of at most k edges that starts anywhere and ends
\* in a given search state.
States == nodes \X SUBSET P

Least(costs) == CHOOSE c \in costs : \A d \in costs : ~Less(d, c)

\* a table of walk costs is a set of triples <<vertex, labels, cost>>, one for
\* each search state
CostIn(d, s) == (CHOOSE r \in d : r[1] = s[1] /\ r[2] = s[2])[3]

WalkStart == {<<s[1], s[2], IF s[2] = LabelsAt(S, s[1]) THEN 0 ELSE Inf>> : s \in States}

WalkStep(d) ==
    {<<s[1], s[2],
       Least({CostIn(d, s)} \cup
             {Plus(r[3], Weight(r[1], s[1])) :
                 r \in {r \in d : /\ r[1] \in Neighbors(s[1])
                                  /\ r[2] \cup LabelsAt(S, s[1]) = s[2]}})>> :
        s \in States}

RECURSIVE WalkCosts(_, _)
WalkCosts(d, k) == IF k = 0 THEN d ELSE WalkCosts(WalkStep(d), k - 1)

\* the least weight of a walk whose vertices' labels cover P, Inf without one
MinCoverCost ==
    LET d == WalkCosts(WalkStart, Cardinality(States))
    IN Least({Inf} \cup {r[3] : r \in {r \in d : r[2] = P}})

\* ------------------------------------------------------------------ runs
\* basic.py lines 104-109: the locals of basic before its first loop
Locals ==
    /\ pc = "basic_seed"
    /\ visited = NoVisited
    /\ pq = {}
    /\ best_cost = Inf
    /\ best_path = <<>>
    /\ basic_ret = <<Inf, <<>>>>
    /\ pruned_ret = <<Inf, <<>>>>

\* 0 for a vertex that SS does not map, else 1 + the number of its labels
LabelRank(SS, v) == IF v \in DOMAIN SS THEN 1 + Cardinality(SS[v]) ELSE 0

\* Every graph on 1..n, n <= NumVertices, with weights 0..MaxWeight, every
\* query 1..k and every assignment of label sets to some of the vertices.
\* The vertices are numbered in the order of their LabelRank: every labelled
\* graph has such a numbering, and no step reads the number of a vertex
\* other than to tell it from another vertex.
InitAny ==
    /\ \E n \in 0..NumVertices : nodes = 1..n
    /\ \E E \in SUBSET Pairs :
         /\ \A e \in E : e \subseteq nodes
         /\ wt \in [E -> 0..MaxWeight]
    /\ \E k \in 0..NumLabels : P = 1..k
    /\ \E D \in SUBSET nodes : S \in [D -> SUBSET Labels]
    /\ \A u, v \in nodes : u < v => LabelRank(S, u) <= LabelRank(S, v)
    /\ Locals

\* the triangle of the concrete scenario: A, B, C are 1, 2, 3 and x, y are 1, 2
InitTriangle ==
    /\ nodes = {1, 2, 3}
    /\ wt = ({1, 2} :> 2) @@ ({2, 3} :> 3) @@ ({1, 3} :> 10)
    /\ P = {1, 2}
    /\ S = (1 :> {1}) @@ (2 :> {2}) @@ (3 :> {})
    /\ Locals

\* a star: centre 4 without labels, three leaves with one label each, edges
\* of weight 1..MaxWeight + 1 and a query of all three labels
InitStar ==
    /\ nodes = {1, 2, 3, 4}
    /\ wt \in [{{1, 4}, {2, 4}, {3, 4}} -> 1..(MaxWeight + 1)]
    /\ P = {1, 2, 3}
    /\ S = [v \in {1, 2, 3} |-> {v}]
    /\ Locals

Init == InitAny \/ InitTriangle \/ InitStar

Next ==
    \/ BasicSeed
    \/ BasicIter
    \/ BasicReturn
    \/ PrunedSeed
    \/ PrunedIter
    \/ PrunedReturn

Spec == Init /\ [][Next]_vars

FairSpec == Spec /\ WF_vars(Next)

\* ------------------------------------------------------- walks and paths
IsWalk(p) == \A i \in 1..(Len(p) - 1) : {p[i], p[i + 1]} \in DOMAIN wt

RECURSIVE PathWeight(_)
PathWeight(p) == IF Len(p) <= 1 THEN 0 ELSE Weight(p[1], p[2]) + PathWeight(Tail(p))

Collected(p) == UNION {LabelsAt(S, p[i]) : i \in 1..Len(p)}

PathVertices(p) == {p[i] : i \in 1..Len(p)}

BasicReturned == pc = "pruned_seed"

InLoop == pc \in {"basic_loop", "pruned_loop"}

\* the entries pushed by a step
Pushed == pq' \ pq

\* C1: when basic has returned, its cost is the least weight of a walk that
\* covers P, and +infinity when no walk covers P.
BasicOptimal == BasicReturned => basic_ret[1] = MinCoverCost

\* C1 witness: basic returned an optimal walk that passes a vertex twice
BasicOptimalWitness ==
    /\ BasicReturned
    /\ basic_ret[1] = MinCoverCost
    /\ basic_ret[1] # Inf
    /\ Len(basic_ret[2]) > Cardinality(PathVertices(basic_ret[2]))

\* C2, as claimed: the cost pruned_dp returns is never below the cost basic
\* returns on the same input.
PrunedAtLeastBasic == pc = "done" => ~Less(pruned_ret[1], basic_ret[1])

\* C2, amended: for a query of at most two labels the cost pruned_dp returns
\* is never below the cost basic returns on the same input.
PrunedAtLeastBasicUpToTwo ==
    (pc = "done" /\ Cardinality(P) <= 2) => ~Less(pruned_ret[1], basic_ret[1])

\* C2 witness: two labels, both functions returned the same positive cost
PrunedAtLeastBasicWitness ==
    /\ pc = "done"
    /\ Cardinality(P) = 2
    /\ basic_ret[1] > 0
    /\ pruned_ret[1] = basic_ret[1]

\* C3: for the empty query on a graph with a vertex, both functions return
\* cost 0 and a path of exactly one vertex.
EmptyQueryBothZero ==
    (pc = "done" /\ P = {} /\ nodes # {}) =>
        /\ basic_ret[1] = 0 /\ Len(basic_ret[2]) = 1
        /\ pruned_ret[1] = 0 /\ Len(pruned_ret[2]) = 1

\* C4: when no walk covers P, both functions return +infinity and the empty
\* path; neither returns a finite cost.
UnreachableIsInf ==
    (pc = "done" /\ MinCoverCost = Inf) =>
        /\ basic_ret = <<Inf, <<>>>>
        /\ pruned_ret = <<Inf, <<>>>>

\* C4 witness: every label of P is carried by a vertex, no walk covers P, and
\* both functions have returned
UnreachableWitness ==
    /\ pc = "done"
    /\ P # {}
    /\ \A l \in P : \E v \in nodes : l \in LabelsAt(S, v)
    /\ MinCoverCost = Inf
    /\ basic_ret = <<Inf, <<>>>>
    /\ pruned_ret = <<Inf, <<>>>>

ValidPath(p, v, c) ==
    /\ p # <<>>
    /\ p[Len(p)] = v
    /\ IsWalk(p)
    /\ PathWeight(p) = c

\* C5: in basic every frontier entry has a path that ends at its vertex, whose
\* consecutive vertices are adjacent and whose weight is its cost; so has the
\* best path, and the path returned, when not empty.
BasicPathsValid ==
    /\ pc = "basic_loop" =>
          /\ \A e \in pq : ValidPath(e.path, e.v, e.cost)
          /\ best_path # <<>> => (IsWalk(best_path) /\ PathWeight(best_path) = best_cost)
    /\ BasicReturned =>
          (basic_ret[2] # <<>> =>
              (IsWalk(basic_ret[2]) /\ PathWeight(basic_ret[2]) = basic_ret[1]))

\* C5 witness: basic returned a path of three vertices or more and positive
\* weight
BasicPathsValidWitness ==
    /\ BasicReturned
    /\ Len(basic_ret[2]) >= 3
    /\ basic_ret[1] > 0
    /\ PathWeight(basic_ret[2]) = basic_ret[1]

\* C6: in basic the labels of every frontier entry are the labels of P carried
\* by the vertices of its path; a path returned with a finite cost covers P.
BasicCoverage ==
    /\ pc = "basic_loop" =>
          /\ \A e \in pq : e.labels = Collected(e.path)
          /\ best_cost # Inf => Collected(best_path) = P
    /\ BasicReturned => (basic_ret[1] # Inf => Collected(basic_ret[2]) = P)

\* C6 witness: basic returned a path on which no single vertex covers P
BasicCoverageWitness ==
    /\ BasicReturned
    /\ basic_ret[1] # Inf
    /\ Collected(basic_ret[2]) = P
    /\ \A v \in nodes : LabelsAt(S, v) # P

IsTriangle ==
    /\ nodes = {1, 2, 3}
    /\ wt = ({1, 2} :> 2) @@ ({2, 3} :> 3) @@ ({1, 3} :> 10)
    /\ P = {1, 2}
    /\ S = (1 :> {1}) @@ (2 :> {2}) @@ (3 :> {})

\* C7: on the triangle basic returns cost 2 and the path [A, B] or [B, A],
\* whichever entries of equal cost are popped first.
TriangleResult ==
    (IsTriangle /\ BasicReturned) =>
        (basic_ret = <<2, <<1, 2>>>> \/ basic_ret = <<2, <<2, 1>>>>)

\* C7 witness: basic returned on the triangle, with the path [B, A]
TriangleWitness == IsTriangle /\ BasicReturned /\ basic_ret = <<2, <<2, 1>>>>

\* the label assignment with the empty set for every vertex it does not map
Completed == [v \in nodes \cup DOMAIN S |-> IF v \in DOMAIN S THEN S[v] ELSE {}]

\* C8: both functions seed, and relax from every frontier entry, exactly as
\* they would with the empty set assigned to each vertex that S does not map,
\* so each run goes, and returns, as it would under that assignment.
MissingIsEmpty ==
    /\ BasicSeeds(S) = BasicSeeds(Completed)
    /\ PrunedSeeds(S) = PrunedSeeds(Completed)
    /\ pc = "basic_loop" =>
          \A e \in pq : BasicRelax(S, visited, e) = BasicRelax(Completed, visited, e)
    /\ pc = "pruned_loop" =>
          \A e \in pq : PrunedRelax(S, visited, best_cost, e)
                            = PrunedRelax(Completed, visited, best_cost, e)

\* C8 witness: pruned_dp has relaxed into a vertex of the graph that S does
\* not map, and the entry is in the frontier
MissingWitness ==
    /\ pc = "pruned_loop"
    /\ \E e \in pq : /\ e.v \in nodes \ DOMAIN S
                     /\ Len(e.path) > 1
                     /\ e.labels = Collected(e.path)

\* a step of the loop of either function
LoopStep == InLoop /\ pc' = pc

\* C9: every run of basic and of pruned_dp returns.  Each turn of the loop
\* pops one entry, and each entry it pushes is for a search state of the
\* |V| * 2^|P| and lowers the cost the table holds for that state.
Terminates ==
    /\ [][LoopStep =>
            /\ \E e \in pq : pq \ pq' = {e}
            /\ \A n \in Pushed :
                  /\ Key(n) \in States
                  /\ Less(n.cost, VisitedGet(visited, Key(n)))
                  /\ n.cost >= 0]_vars
    /\ <>(pc = "done")

\* C9 witness: both functions returned on a graph with an edge of weight 0,
\* after a run of pruned_dp that pushed entries beyond its seeds
TerminatesWitness ==
    /\ pc = "done"
    /\ \E d \in DOMAIN wt : wt[d] = 0
    /\ \E k \in DOMAIN visited : visited[k] > 0

\* C10: within a run, an entry of the visited table is never deleted and
\* never raised; it changes only when an entry for its state is pushed, and
\* then to the strictly lower cost of that entry.
VisitedMonotone ==
    [][LoopStep =>
          /\ \A k \in DOMAIN visited :
                /\ k \in DOMAIN visited'
                /\ \/ visited'[k] = visited[k]
                   \/ /\ Less(visited'[k], visited[k])
                      /\ \E n \in Pushed : Key(n) = k /\ n.cost = visited'[k]
          /\ \A n \in Pushed :
                /\ visited'[Key(n)] = n.cost
                /\ Less(n.cost, VisitedGet(visited, Key(n)))]_vars

\* C10 witness: the frontier of pruned_dp holds an entry whose state has since
\* been rewritten with a lower cost
VisitedMonotoneWitness ==
    /\ pc = "pruned_loop"
    /\ \E e \in pq : Less(visited[Key(e)], e.cost)

\* a step of the loop of basic
BasicStep == pc = "basic_loop" /\ pc' = pc

\* C11 as stated: during the run of basic the cost the visited table holds
\* for a search state is never replaced by a smaller one.
BasicVisitedNeverLowered ==
    [][BasicStep =>
          \A k \in DOMAIN visited :
              k \in DOMAIN visited' /\ ~Less(visited'[k], visited[k])]_vars

\* C11: during the run of basic the cost the visited table holds for a
\* search state is never deleted and never replaced by a larger one (line
\* 132 writes only a cost below the one held).
BasicVisitedNeverRaised ==
    [][BasicStep =>
          \A k \in DOMAIN visited :
              k \in DOMAIN visited' /\ ~Less(visited[k], visited'[k])]_vars

\* C11 witness: basic has rewritten a state with a cost below the one first
\* recorded, whose entry is still in the frontier
BasicVisitedNeverRaisedWitness ==
    /\ pc = "basic_loop"
    /\ \E e \in pq : Less(visited[Key(e)], e.cost)

\* the least weight of a walk that starts at a seed of basic and ends in each
\* search state
WalkTable == WalkCosts(WalkStart, Cardinality(States))

\* C12 as stated: the cost at which basic pops a search state for the first
\* time without finding it stale is the least weight of a walk from a seed to
\* that state.  That cost stays in the table (PopCostFinal), every state of
\* the table has been popped so when the frontier is empty, so the table at
\* the return of basic holds these costs.
PopCostLeast ==
    BasicReturned =>
        \A k \in DOMAIN visited : visited[k] = CostIn(WalkTable, k)

\* C12: the cost at which basic pops a search state without finding it stale
\* is the least weight of a walk from a seed to that state when it is below
\* the cost basic returns; no later pop costs less than an earlier one, and
\* the table keeps every cost that is not above the cost popped.
PopCostFinal ==
    /\ [](BasicReturned =>
            \A k \in DOMAIN visited :
                Less(visited[k], basic_ret[1]) => visited[k] = CostIn(WalkTable, k))
    /\ [][BasicStep =>
            \A e \in pq \ pq' :
                /\ \A n \in pq' : ~Less(n.cost, e.cost)
                /\ \A k \in DOMAIN visited :
                      ~Less(e.cost, visited[k]) => visited'[k] = visited[k]]_vars

\* C12 witness: basic has returned a finite cost after popping a state at a
\* positive cost below it
PopCostFinalWitness ==
    /\ BasicReturned
    /\ basic_ret[1] # Inf
    /\ \E k \in DOMAIN visited : visited[k] > 0 /\ Less(visited[k], basic_ret[1])

\* C13: a step of either loop takes exactly one entry out of the frontier, an
\* entry of least cost; when that entry's cost differs from the cost the table
\* holds for its state, the step does nothing else.  No other step takes an
\* entry out of the frontier.
StaleDropped ==
    [][/\ LoopStep =>
            \E e \in HeapMin(pq) :
                /\ pq \ pq' = {e}
                /\ e.cost # VisitedGet(visited, Key(e)) =>
                      /\ pq' = pq \ {e}
                      /\ visited' = visited
                      /\ best_cost' = best_cost
                      /\ best_path' = best_path
       /\ ~LoopStep => pq \subseteq pq']_vars

\* C13 witness: a superseded entry has stayed in the frontier of basic until
\* it is the next to be popped, with other entries behind it
StaleDroppedWitness ==
    /\ pc = "basic_loop"
    /\ \E e \in HeapMin(pq) : e.cost # VisitedGet(visited, Key(e)) /\ pq # {e}

\* a step of the loop of pruned_dp
PrunedStep == pc = "pruned_loop" /\ pc' = pc

\* C14: pruned_dp does not expand a popped entry whose cost is above
\* best_cost * 2/3: the step that pops it pushes nothing and leaves the
\* visited table as it was.
OverBoundNotExpanded ==
    [][PrunedStep =>
          \A e \in pq \ pq' :
              OverBound(e.cost, best_cost) => Pushed = {} /\ visited' = visited]_vars

\* C14 witness: with a full cover recorded, the next entry to be popped is
\* current, covers less than P, has neighbours and costs more than
\* best_cost * 2/3
OverBoundNotExpandedWitness ==
    /\ pc = "pruned_loop"
    /\ best_cost # Inf
    /\ \E e \in HeapMin(pq) :
          /\ OverBound(e.cost, best_cost)
          /\ e.cost = VisitedGet(visited, Key(e))
          /\ ~Covers(e.labels)
          /\ Neighbors(e.v) # {}

\* the popped entry e is expanded: it passes the tests of lines 88-100
Expanded(e) ==
    /\ e.cost = VisitedGet(visited, Key(e))
    /\ Less(e.cost, best_cost)
    /\ ~Covers(e.labels)
    /\ ~OverBound(e.cost, best_cost)

\* the states of the table that the merge step combines with the popped
\* entry e: at the vertex of e, with labels that are some of those e lacks,
\* for a sum within best_cost * 2/3 and below the cost held for the
\* combined state
MergePartners(e) ==
    {k \in DOMAIN visited :
        /\ k[1] = e.v
        /\ k[2] # {}
        /\ k[2] \subseteq P \ e.labels
        /\ best_cost = Inf \/ 3 * (e.cost + visited[k]) <= 2 * best_cost
        /\ Less(e.cost + visited[k], VisitedGet(visited, <<e.v, e.labels \cup k[2]>>))}

\* C15: the entries that a step of pruned_dp pushes at the vertex of the
\* popped entry e are, when e is expanded, one per merge partner k, for the
\* state (e.v, e.labels \cup k[2]) at cost e.cost + visited[k], and the table
\* holds that cost for that state after the step; no entry otherwise.
MergeRule ==
    [][PrunedStep =>
          \A e \in pq \ pq' :
              LET combined == {n \in Pushed : n.v = e.v} IN
              IF Expanded(e)
              THEN /\ {<<n.cost, n.labels>> : n \in combined} =
                          {<<e.cost + visited[k], e.labels \cup k[2]>> : k \in MergePartners(e)}
                   /\ \A n \in combined : visited'[Key(n)] = n.cost
              ELSE combined = {}]_vars

\* C15 witness: the table of pruned_dp holds the cost of an entry of the
\* frontier that a merge with a partner of positive cost produced: it costs
\* more than the edges of its path
MergeRuleWitness ==
    /\ pc = "pruned_loop"
    /\ \E n \in pq : n.cost = VisitedGet(visited, Key(n)) /\ PathWeight(n.path) < n.cost

\* C16: an entry pushed for a neighbour u of the popped entry's vertex
\* carries the popped path with u appended; an entry pushed at the popped
\* entry's vertex, which only the merge step of pruned_dp does, carries the
\* popped path as it is.
PathBookkeeping ==
    [][LoopStep =>
          \A e \in pq \ pq' : \A n \in Pushed :
              \/ /\ n.v \in Neighbors(e.v)
                 /\ n.path = Append(e.path, n.v)
              \/ /\ pc = "pruned_loop"
                 /\ n.v = e.v
                 /\ n.path = e.path]_vars

\* C16 witness: pruned_dp has returned a finite cost with a path whose
\* vertices do not carry every label of P and whose edges weigh less than
\* the cost
PathBookkeepingWitness ==
    /\ pc = "done"
    /\ pruned_ret[1] # Inf
    /\ ~(P \subseteq Collected(pruned_ret[2]))
    /\ PathWeight(pruned_ret[2]) # pruned_ret[1]

\* C17: in pruned_dp a popped entry that is current, costs less than
\* best_cost and covers less than P, which is one that reaches line 99, finds
\* best_cost still +infinity, so neither line 99 nor line 124 rejects
\* anything.  Once best_cost is finite every popped entry is stale or costs
\* at least best_cost, and the step changes neither best_cost, best_path nor
\* the visited table and pushes nothing: best_cost is assigned at most once.
BoundNeverFires ==
    [][PrunedStep =>
          \A e \in pq \ pq' :
              /\ (/\ e.cost = VisitedGet(visited, Key(e))
                  /\ Less(e.cost, best_cost)
                  /\ ~Covers(e.labels)) => best_cost = Inf
              /\ best_cost # Inf =>
                    /\ e.cost # VisitedGet(visited, Key(e)) \/ ~Less(e.cost, best_cost)
                    /\ visited' = visited
                    /\ best_cost' = best_cost
                    /\ best_path' = best_path
                    /\ Pushed = {}]_vars

\* C17 witness: with a full cover recorded, the frontier of pruned_dp still
\* holds a current entry for another state that covers P
BoundNeverFiresWitness ==
    /\ pc = "pruned_loop"
    /\ best_cost # Inf
    /\ \E e \in pq : Covers(e.labels) /\ e.cost = VisitedGet(visited, Key(e))

\* C18: for a query that is not empty, the cost pruned_dp returns is at most
\* the cost basic returns on the same input, and it is +infinity exactly when
\* that of basic is.
PrunedAtMostBasic ==
    (pc = "done" /\ P # {}) =>
        /\ ~Less(basic_ret[1], pruned_ret[1])
        /\ pruned_ret[1] = Inf <=> basic_ret[1] = Inf

\* C18 witness: both functions have returned a finite positive cost for a
\* query of two labels or more
PrunedAtMostBasicWitness ==
    /\ pc = "done"
    /\ Cardinality(P) >= 2
    /\ basic_ret[1] > 0
    /\ pruned_ret[1] > 0

\* ------------------------------------------------- connected subgraphs
\* the total weight of the edges F
RECURSIVE SumWeights(_)
SumWeights(F) ==
    IF F = {} THEN 0
    ELSE LET d == CHOOSE d \in F : TRUE IN wt[d] + SumWeights(F \ {d})

\* the vertices joined to those of R by edges of F
RECURSIVE Grow(_, _)
Grow(R, F) ==
    LET R2 == R \cup UNION {d \in F : d \cap R # {}}
    IN IF R2 = R THEN R ELSE Grow(R2, F)

\* the least weight of a connected subgraph that contains v and whose
\* vertices carry every label of L, Inf without one.  The edges of F outside
\* the component of v only add weight, so the least is over every F.
SubgraphCost(v, L) ==
    Least({Inf} \cup
          {SumWeights(F) :
              F \in {F \in SUBSET DOMAIN wt :
                        L \subseteq UNION {LabelsAt(S, x) : x \in Grow({v}, F)}}})

\* the weight of a minimum connected subgraph covering P
SteinerCost == Least({Inf} \cup {SubgraphCost(v, P) : v \in nodes})

\* C19: every cost the visited table of pruned_dp holds for a state (v, L) is
\* at least the weight of some connected subgraph that contains v and covers
\* L, and the cost pruned_dp returns is at least the weight of a minimum
\* connected subgraph covering P.
PrunedSound ==
    /\ pc = "pruned_loop" =>
          \A k \in DOMAIN visited : ~Less(visited[k], SubgraphCost(k[1], k[2]))
    /\ pc = "done" => ~Less(pruned_ret[1], SteinerCost)

\* C19 witness: pruned_dp has returned the weight of a minimum connected
\* subgraph covering P, which is positive and takes a merge to reach: a walk
\* that covers P weighs more
PrunedSoundWitness ==
    /\ pc = "done"
    /\ pruned_ret[1] = SteinerCost
    /\ pruned_ret[1] > 0
    /\ Less(pruned_ret[1], basic_ret[1])

\* p is a path of the graph that ends at v and whose edges weigh at most c
PathWithin(p, v, c) ==
    /\ p # <<>>
    /\ p[Len(p)] = v
    /\ IsWalk(p)
    /\ PathWeight(p) <= c

\* what the cost of an entry exceeds the weight of its path by
Gap(e) == e.cost - PathWeight(e.path)

\* C20 as stated: every entry of the frontier of pruned_dp has a path of the
\* graph that ends at its vertex and weighs at most its cost, and its labels
\* include those of every vertex of the path when the path has more than one
\* vertex, a label of its vertex otherwise.
PrunedPathsCollect ==
    pc = "pruned_loop" =>
        \A e \in pq :
            /\ PathWithin(e.path, e.v, e.cost)
            /\ IF Len(e.path) > 1
               THEN Collected(e.path) \subseteq e.labels
               ELSE e.labels \cap LabelsAt(S, e.v) # {}

\* C20: every entry of the frontier of pruned_dp has a path of the graph that
\* ends at its vertex and weighs at most its cost, and its labels include a
\* label of the first vertex of the path and those of every later vertex; so
\* has the path pruned_dp returns.  An entry pushed by a relaxation exceeds
\* the weight of its path by what the popped entry does, one pushed by the
\* merge step by that much more than the cost of the state merged in.
PrunedPathsWithin ==
    /\ [](pc = "pruned_loop" =>
            \A e \in pq :
                /\ PathWithin(e.path, e.v, e.cost)
                /\ e.labels \cap LabelsAt(S, e.path[1]) # {}
                /\ Collected(Tail(e.path)) \subseteq e.labels)
    /\ [](pc = "done" /\ pruned_ret[2] # <<>> =>
            PathWithin(pruned_ret[2], pruned_ret[2][Len(pruned_ret[2])], pruned_ret[1]))
    /\ [][pc' = "pruned_loop" =>
            \A n \in Pushed :
                IF pc = "pruned_seed" THEN Gap(n) = 0
                ELSE \A e \in pq \ pq' :
                        IF n.v = e.v
                        THEN Gap(n) = Gap(e) + visited[<<e.v, n.labels \ e.labels>>]
                        ELSE Gap(n) = Gap(e)]_vars

\* C20 witness: the frontier of pruned_dp holds an entry whose path has edges
\* of positive weight and weighs less than its cost
PrunedPathsWithinWitness ==
    /\ pc = "pruned_loop"
    /\ \E e \in pq :
          /\ 0 < PathWeight(e.path)
          /\ PathWeight(e.path) < e.cost

====
